---- MODULE Spec2Model ----
(***************************************************************************)
(* django-mongoadmin: the import-time substitution of the admin site       *)
(* (mongoadmin/__init__.py) and the post_migrate handler that creates the  *)
(* default permissions of the registered Mongo documents                   *)
(* (mongoadmin/management/__init__.py).                                    *)
(***************************************************************************)
EXTENDS Integers, Sequences, FiniteSets, TLC

VARIABLES
    settings,          \* MONGOADMIN_OVERRIDE_ADMIN: "absent", "False" or "True"
    django_version,    \* <<major, minor, patch>> of the installed Django
    imported,          \* mongoadmin/__init__.py has been executed
    admin_site,        \* the object bound to django.contrib.admin.site
    admin_sites_site,  \* the object bound to django.contrib.admin.sites.site
    site_registry,     \* site object -> the dict object its _registry names
    dicts,             \* dict object -> its entries, in insertion order
    at_import,         \* history: the bindings and dicts when the import ran
    installed_auth,    \* apps.get_model('auth', 'Permission') resolves
    router_allowed,    \* aliases on which the router lets Permission migrate
    ctTable,           \* alias -> rows of the ContentType table
    permTable,         \* alias -> rows of the Permission table
    pc,                \* per invocation slot: position in create_permissions
    args,              \* per slot: app_config.models_module, verbosity, using
    models,            \* per slot: the list get_mongo_models() returned
    idx,               \* per slot: position of klass in that list
    ctype,             \* per slot: the ContentType of the current klass
    searched_perms,    \* per slot: list of (ctype, (codename, name))
    ctypes,            \* per slot: set of ContentType rows
    all_perms,         \* per slot: set of (content_type pk, codename)
    perms,             \* per slot: list of unsaved Permission objects
    outcome,           \* per slot: how the invocation ended
    stdout,            \* per slot: lines printed by the invocation
    entry,             \* history, per slot: tables and registry at the call
    resolved,          \* history, per slot: classes passed to get_for_model
    queries,           \* history, per slot: database operations performed
    prev,              \* history: the invocation before the current one
    runs,              \* number of invocations started
    changes            \* number of registry changes made

siteVars == <<settings, django_version, imported, admin_site, admin_sites_site,
              site_registry, at_import>>
envVars == <<installed_auth, router_allowed>>
dbVars == <<ctTable, permTable>>
localVars == <<pc, args, models, idx, ctype, searched_perms, ctypes,
               all_perms, perms, outcome, stdout>>
histVars == <<entry, resolved, queries, prev, runs>>
vars == <<siteVars, dicts, envVars, dbVars, localVars, histVars, changes>>

----------------------------------------------------------------------------
(* Bounds of the model *)

MaxInitial == 2      \* entries of a registry dict in an initial state
MaxRegistry == 3     \* entries in a registry dict
MaxRuns == 2         \* invocations of create_permissions in a behaviour
MaxChanges == 1      \* register / unregister calls in a behaviour

----------------------------------------------------------------------------
(* The classes that can be registered, and what their _meta holds *)

Classes == {"billing.models.Invoice", "billing.archive.Invoice",
            "billing.models.Customer", "billing.models.Report",
            "auth.models.User"}

Meta(klass) ==
    CASE klass = "billing.models.Invoice" ->
           [app_label |-> "billing", model_name |-> "invoice",
            verbose_name |-> "invoice", verbose_name_raw |-> "invoice",
            document |-> TRUE]
      [] klass = "billing.archive.Invoice" ->
           [app_label |-> "billing", model_name |-> "invoice",
            verbose_name |-> "invoice", verbose_name_raw |-> "invoice",
            document |-> TRUE]
      [] klass = "billing.models.Customer" ->
           [app_label |-> "billing", model_name |-> "customer",
            verbose_name |-> "customer", verbose_name_raw |-> "customer",
            document |-> TRUE]
      [] klass = "billing.models.Report" ->
           [app_label |-> "billing", model_name |-> "report",
            verbose_name |-> "bericht", verbose_name_raw |-> "activity report",
            document |-> TRUE]
      [] klass = "auth.models.User" ->
           [app_label |-> "auth", model_name |-> "user",
            verbose_name |-> "user", verbose_name_raw |-> "user",
            document |-> FALSE]

AdminOf(klass) == IF Meta(klass).document THEN "DocumentAdmin" ELSE "ModelAdmin"

Aliases == {"default", "replica"}
ProcIds == {1, 2}
Sites == {"django_site", "mongoadmin_site"}
DictIds == {"django_registry", "mongoadmin_registry"}

----------------------------------------------------------------------------
(* Sequence helpers *)

Range(s) == {s[i] : i \in DOMAIN s}

RECURSIVE SeqsUpTo(_, _)
SeqsUpTo(S, n) ==
    IF n = 0 THEN {<<>>}
    ELSE LET shorter == SeqsUpTo(S, n - 1)
         IN  shorter \cup {Append(s, x) : s \in shorter, x \in S}

DistinctSeqs(S, n) ==
    {s \in SeqsUpTo(S, n) : \A i, j \in DOMAIN s : i # j => s[i] # s[j]}

MaxOf(S) == IF S = {} THEN 0 ELSE CHOOSE m \in S : \A x \in S : x <= m

----------------------------------------------------------------------------
(* mongoadmin/management/__init__.py: pure helpers *)

\* site._registry of mongoadmin.sites.site, the dict the handler enumerates
Registry == dicts[site_registry["mongoadmin_site"]]

RegistryKeys(d) == [i \in DOMAIN d |-> d[i].model]

IsTopLevelDocument(klass) == Meta(klass).document

get_mongo_modelsAll == RegistryKeys(Registry)

get_mongo_models == SelectSeq(RegistryKeys(Registry), IsTopLevelDocument)

DefaultActions == <<"add", "change", "delete">>

get_permission_codename(action, opts) == action \o "_" \o opts.model_name

PermissionName(action, opts) == "Can " \o action \o " " \o opts.verbose_name_raw

get_default_permissions(opts) ==
    [i \in 1..3 |-> [codename |-> get_permission_codename(DefaultActions[i], opts),
                     name |-> PermissionName(DefaultActions[i], opts)]]

permission_name_max_length == 18

verbose_name_max_length == permission_name_max_length - 11

\* ContentType.objects.db_manager(using).get_for_model(klass): the row of
\* (app_label, model_name), a new row with the next pk when there is none
ContentTypeRows(table, opts) ==
    {r \in table : r.app_label = opts.app_label /\ r.model = opts.model_name}

get_for_model(table, klass) ==
    LET found == ContentTypeRows(table, Meta(klass))
    IN  IF found # {} THEN CHOOSE r \in found : TRUE
        ELSE [pk |-> MaxOf({r.pk : r \in table}) + 1,
              app_label |-> Meta(klass).app_label,
              model |-> Meta(klass).model_name]

\* Permission.objects.using(using).filter(content_type__in=ctypes)
\*     .values_list("content_type", "codename")
values_listEmpty(table, cts) == {}

values_list(table, cts) ==
    {<<r.content_type, r.codename>> :
        r \in {q \in table : q.content_type \in {c.pk : c \in cts}}}

\* the list comprehension of lines 90-94
NewPermissions(searched, existing) ==
    LET missing(sp) == <<sp.ct.pk, sp.codename>> \notin existing
        kept == SelectSeq(searched, missing)
    IN  [i \in DOMAIN kept |-> [codename |-> kept[i].codename,
                                name |-> kept[i].name,
                                content_type |-> kept[i].ct]]

\* the rows bulk_create writes: one per object, with consecutive new pks
SavedRows(table, objs) ==
    LET base == MaxOf({r.pk : r \in table})
    IN  {[pk |-> base + i, content_type |-> objs[i].content_type.pk,
          codename |-> objs[i].codename, name |-> objs[i].name] :
            i \in DOMAIN objs}

bulk_createReplace(table, objs) == SavedRows({}, objs)

bulk_createIgnoreConflicts(table, objs) ==
    table \cup {r \in SavedRows(table, objs) :
                   \A q \in table : <<q.content_type, q.codename>>
                                        # <<r.content_type, r.codename>>}

bulk_create(table, objs) == table \cup SavedRows(table, objs)

----------------------------------------------------------------------------
(* create_permissions, one step at a time; p is the invocation slot *)

NoContentType == [pk |-> 0, app_label |-> "", model |-> ""]

NoInvocation == [valid |-> FALSE, using |-> "default", models_module |-> FALSE,
                 registry |-> <<>>, inserted |-> 0]

klass(p) == models[p][idx[p]]

\* the three conditions of lines 42-51
HasModelsModule(p) == args[p].models_module
PermissionResolves(p) == installed_auth
allow_migrate_modelAlways(p) == TRUE
allow_migrate_model(p) == args[p].using \in router_allowed

Finished(p, how) ==
    /\ pc' = [pc EXCEPT ![p] = "done"]
    /\ outcome' = [outcome EXCEPT ![p] = how]

\* post_migrate sends the signal: create_permissions(app_config, verbosity,
\* interactive, using) is entered
Call(p, models_module, verbosity, using) ==
    /\ pc[p] \in {"idle", "done"}
    /\ runs < MaxRuns
    /\ runs' = runs + 1
    /\ pc' = [pc EXCEPT ![p] = "eligibility"]
    /\ args' = [args EXCEPT ![p] = [models_module |-> models_module,
                                    verbosity |-> verbosity, using |-> using]]
    /\ models' = [models EXCEPT ![p] = <<>>]
    /\ idx' = [idx EXCEPT ![p] = 1]
    /\ ctype' = [ctype EXCEPT ![p] = NoContentType]
    /\ searched_perms' = [searched_perms EXCEPT ![p] = <<>>]
    /\ ctypes' = [ctypes EXCEPT ![p] = {}]
    /\ all_perms' = [all_perms EXCEPT ![p] = {}]
    /\ perms' = [perms EXCEPT ![p] = <<>>]
    /\ outcome' = [outcome EXCEPT ![p] = "running"]
    /\ stdout' = [stdout EXCEPT ![p] = <<>>]
    /\ entry' = [entry EXCEPT ![p] = [ct |-> ctTable, perm |-> permTable,
                                      registry |-> Registry]]
    /\ resolved' = [resolved EXCEPT ![p] = <<>>]
    /\ queries' = [queries EXCEPT ![p] = 0]
    /\ prev' = IF pc[p] = "done"
               THEN [valid |-> TRUE, using |-> args[p].using,
                     models_module |-> args[p].models_module,
                     registry |-> entry[p].registry,
                     inserted |-> Cardinality(permTable[args[p].using]
                                              \ entry[p].perm[args[p].using])]
               ELSE prev
    /\ UNCHANGED <<siteVars, dicts, envVars, dbVars, changes>>

\* lines 42-43
ReturnNoModelsModule(p) ==
    /\ pc[p] = "eligibility"
    /\ ~HasModelsModule(p)
    /\ Finished(p, "returned")
    /\ UNCHANGED <<siteVars, dicts, envVars, dbVars, args, models, idx, ctype,
                   searched_perms, ctypes, all_perms, perms, stdout, histVars,
                   changes>>

\* lines 45-48
ReturnLookupError(p) ==
    /\ pc[p] = "eligibility"
    /\ HasModelsModule(p)
    /\ ~PermissionResolves(p)
    /\ Finished(p, "returned")
    /\ UNCHANGED <<siteVars, dicts, envVars, dbVars, args, models, idx, ctype,
                   searched_perms, ctypes, all_perms, perms, stdout, histVars,
                   changes>>

\* lines 50-51
ReturnRouterDisallows(p) ==
    /\ pc[p] = "eligibility"
    /\ HasModelsModule(p)
    /\ PermissionResolves(p)
    /\ ~allow_migrate_model(p)
    /\ Finished(p, "returned")
    /\ UNCHANGED <<siteVars, dicts, envVars, dbVars, args, models, idx, ctype,
                   searched_perms, ctypes, all_perms, perms, stdout, histVars,
                   changes>>

\* lines 53-63: the locals are set up and get_mongo_models() is evaluated
EnterLoop(p) ==
    /\ pc[p] = "eligibility"
    /\ HasModelsModule(p)
    /\ PermissionResolves(p)
    /\ allow_migrate_model(p)
    /\ models' = [models EXCEPT ![p] = get_mongo_models]
    /\ idx' = [idx EXCEPT ![p] = 1]
    /\ pc' = [pc EXCEPT ![p] = "loop"]
    /\ UNCHANGED <<siteVars, dicts, envVars, dbVars, args, ctype,
                   searched_perms, ctypes, all_perms, perms, outcome, stdout,
                   histVars, changes>>

\* line 66
GetForModel(p) ==
    /\ pc[p] = "loop"
    /\ idx[p] <= Len(models[p])
    /\ LET using == args[p].using
           ct == get_for_model(ctTable[using], klass(p))
       IN  /\ ctype' = [ctype EXCEPT ![p] = ct]
           /\ ctTable' = [ctTable EXCEPT ![using] = @ \cup {ct}]
    /\ resolved' = [resolved EXCEPT ![p] = Append(@, klass(p))]
    /\ queries' = [queries EXCEPT ![p] = @ + 1]
    /\ pc' = [pc EXCEPT ![p] = "check"]
    /\ UNCHANGED <<siteVars, dicts, envVars, permTable, args, models, idx,
                   searched_perms, ctypes, all_perms, perms, outcome, stdout,
                   entry, prev, runs, changes>>

VerboseNameTooLong(p) ==
    Len(Meta(klass(p)).verbose_name) > verbose_name_max_length

\* lines 68-75 as a per-model skip: the model is passed over, the loop goes on
SkipVerboseNameTooLong(p) ==
    /\ pc[p] = "check"
    /\ VerboseNameTooLong(p)
    /\ idx' = [idx EXCEPT ![p] = @ + 1]
    /\ pc' = [pc EXCEPT ![p] = "loop"]
    /\ UNCHANGED <<siteVars, dicts, envVars, dbVars, args, models, ctype,
                   searched_perms, ctypes, all_perms, perms, outcome, stdout,
                   histVars, changes>>

\* lines 68-75 inside a transaction that the raise rolls back
RaiseVerboseNameTooLongRollback(p) ==
    /\ pc[p] = "check"
    /\ VerboseNameTooLong(p)
    /\ Finished(p, "ValidationError")
    /\ ctTable' = entry[p].ct
    /\ UNCHANGED <<siteVars, dicts, envVars, permTable, args, models, idx, ctype,
                   searched_perms, ctypes, all_perms, perms, stdout, histVars,
                   changes>>

\* lines 68-75
RaiseVerboseNameTooLong(p) ==
    /\ pc[p] = "check"
    /\ VerboseNameTooLong(p)
    /\ Finished(p, "ValidationError")
    /\ UNCHANGED <<siteVars, dicts, envVars, dbVars, args, models, idx, ctype,
                   searched_perms, ctypes, all_perms, perms, stdout, histVars,
                   changes>>

\* lines 77-79
AppendSearchedPerms(p) ==
    /\ pc[p] = "check"
    /\ ~VerboseNameTooLong(p)
    /\ ctypes' = [ctypes EXCEPT ![p] = @ \cup {ctype[p]}]
    /\ LET dp == get_default_permissions(Meta(klass(p)))
       IN  searched_perms' = [searched_perms EXCEPT ![p] =
               @ \o [i \in DOMAIN dp |-> [ct |-> ctype[p],
                                          codename |-> dp[i].codename,
                                          name |-> dp[i].name]]]
    /\ idx' = [idx EXCEPT ![p] = @ + 1]
    /\ pc' = [pc EXCEPT ![p] = "loop"]
    /\ UNCHANGED <<siteVars, dicts, envVars, dbVars, args, models, ctype,
                   all_perms, perms, outcome, stdout, histVars, changes>>

\* lines 84-88
QueryAllPerms(p) ==
    /\ pc[p] = "loop"
    /\ idx[p] > Len(models[p])
    /\ all_perms' = [all_perms EXCEPT ![p] =
                        values_list(permTable[args[p].using], ctypes[p])]
    /\ queries' = [queries EXCEPT ![p] = @ + 1]
    /\ pc' = [pc EXCEPT ![p] = "build"]
    /\ UNCHANGED <<siteVars, dicts, envVars, dbVars, args, models, idx, ctype,
                   searched_perms, ctypes, perms, outcome, stdout, entry,
                   resolved, prev, runs, changes>>

PermissionNameTooLong(objs) ==
    \E i \in DOMAIN objs : Len(objs[i].name) > permission_name_max_length

\* lines 90-106, a too long name among the new permissions
RaisePermissionNameTooLong(p) ==
    /\ pc[p] = "build"
    /\ LET objs == NewPermissions(searched_perms[p], all_perms[p])
       IN  /\ PermissionNameTooLong(objs)
           /\ perms' = [perms EXCEPT ![p] = objs]
    /\ Finished(p, "ValidationError")
    /\ UNCHANGED <<siteVars, dicts, envVars, dbVars, args, models, idx, ctype,
                   searched_perms, ctypes, all_perms, stdout, histVars, changes>>

\* lines 90-106, every new permission passes
PermsValidated(p) ==
    /\ pc[p] = "build"
    /\ LET objs == NewPermissions(searched_perms[p], all_perms[p])
       IN  /\ ~PermissionNameTooLong(objs)
           /\ perms' = [perms EXCEPT ![p] = objs]
    /\ pc' = [pc EXCEPT ![p] = "bulk_create"]
    /\ UNCHANGED <<siteVars, dicts, envVars, dbVars, args, models, idx, ctype,
                   searched_perms, ctypes, all_perms, outcome, stdout, histVars,
                   changes>>

\* line 107
BulkCreate(p) ==
    /\ pc[p] = "bulk_create"
    /\ permTable' = [permTable EXCEPT ![args[p].using] = bulk_create(@, perms[p])]
    /\ queries' = [queries EXCEPT ![p] = @ + 1]
    /\ pc' = [pc EXCEPT ![p] = "report"]
    /\ UNCHANGED <<siteVars, dicts, envVars, ctTable, args, models, idx, ctype,
                   searched_perms, ctypes, all_perms, perms, outcome, stdout,
                   entry, resolved, prev, runs, changes>>

\* lines 108-110
Report(p) ==
    /\ pc[p] = "report"
    /\ stdout' = [stdout EXCEPT ![p] =
                     IF args[p].verbosity >= 2
                     THEN [i \in DOMAIN perms[p] |->
                              "Adding permission '" \o perms[p][i].name \o "'"]
                     ELSE <<>>]
    /\ Finished(p, "ok")
    /\ UNCHANGED <<siteVars, dicts, envVars, dbVars, args, models, idx, ctype,
                   searched_perms, ctypes, all_perms, perms, histVars, changes>>

\* the signals post_migrate sends: an app with models on the default alias,
\* the same quietly on the other alias, and an app without a models module
Invocations ==
    { [models_module |-> TRUE, verbosity |-> 2, using |-> "default"],
      [models_module |-> TRUE, verbosity |-> 1, using |-> "replica"],
      [models_module |-> FALSE, verbosity |-> 2, using |-> "default"] }

create_permissions(p) ==
    \/ \E i \in Invocations : Call(p, i.models_module, i.verbosity, i.using)
    \/ ReturnNoModelsModule(p)
    \/ ReturnLookupError(p)
    \/ ReturnRouterDisallows(p)
    \/ EnterLoop(p)
    \/ GetForModel(p)
    \/ RaiseVerboseNameTooLong(p)
    \/ AppendSearchedPerms(p)
    \/ QueryAllPerms(p)
    \/ RaisePermissionNameTooLong(p)
    \/ PermsValidated(p)
    \/ BulkCreate(p)
    \/ Report(p)

----------------------------------------------------------------------------
(* The admin sites: registration, and mongoadmin/__init__.py *)

Admins == {"ModelAdmin", "DocumentAdmin"}

EntriesOf(keys) == [i \in DOMAIN keys |-> [model |-> keys[i],
                                            admin |-> AdminOf(keys[i])]]

Idle == \A p \in ProcIds : pc[p] \in {"idle", "done"}

\* AdminSite.register(model, admin_class) on the given site object
Register(site, model, admin) ==
    /\ Idle
    /\ changes < MaxChanges
    /\ LET d == site_registry[site]
       IN  /\ model \notin Range(RegistryKeys(dicts[d]))
           /\ Len(dicts[d]) < MaxRegistry
           /\ dicts' = [dicts EXCEPT ![d] =
                           Append(@, [model |-> model, admin |-> admin])]
    /\ changes' = changes + 1
    /\ UNCHANGED <<siteVars, envVars, dbVars, localVars, histVars>>

\* AdminSite.unregister(model) on the given site object
Unregister(site, model) ==
    /\ Idle
    /\ changes < MaxChanges
    /\ LET d == site_registry[site]
           other(e) == e.model # model
       IN  /\ model \in Range(RegistryKeys(dicts[d]))
           /\ dicts' = [dicts EXCEPT ![d] = SelectSeq(@, other)]
    /\ changes' = changes + 1
    /\ UNCHANGED <<siteVars, envVars, dbVars, localVars, histVars>>

\* StrictVersion(a) < StrictVersion(b) on (major, minor, patch)
VersionLess(a, b) ==
    \/ a[1] < b[1]
    \/ a[1] = b[1] /\ a[2] < b[2]
    \/ a[1] = b[1] /\ a[2] = b[2] /\ a[3] < b[3]

\* getattr(settings, 'MONGOADMIN_OVERRIDE_ADMIN', False)
OverrideAdmin == settings = "True"

Snapshot == [admin_site |-> admin_site, admin_sites_site |-> admin_sites_site,
             site_registry |-> site_registry, dicts |-> dicts]

\* lines 15-20 with the registry left as it was (the site alone is replaced)
SubstituteSiteOnly ==
    IF VersionLess(django_version, <<1, 9, 0>>)
    THEN /\ admin_site' = "mongoadmin_site"
         /\ UNCHANGED <<site_registry, admin_sites_site>>
    ELSE /\ admin_sites_site' = "mongoadmin_site"
         /\ UNCHANGED <<site_registry, admin_site>>

\* lines 15-20
SubstituteSite ==
    IF VersionLess(django_version, <<1, 9, 0>>)
    THEN /\ site_registry' = [site_registry EXCEPT
                                 !["mongoadmin_site"] = site_registry[admin_site]]
         /\ admin_site' = "mongoadmin_site"
         /\ UNCHANGED admin_sites_site
    ELSE /\ site_registry' = [site_registry EXCEPT
                                 !["mongoadmin_site"] = site_registry[admin_sites_site]]
         /\ admin_sites_site' = "mongoadmin_site"
         /\ UNCHANGED admin_site

\* the module body of mongoadmin/__init__.py, run at the first import
ImportMongoadmin ==
    /\ ~imported
    /\ imported' = TRUE
    /\ at_import' = Snapshot
    /\ IF OverrideAdmin
       THEN SubstituteSite
       ELSE UNCHANGED <<admin_site, admin_sites_site, site_registry>>
    /\ UNCHANGED <<settings, django_version, dicts, envVars, dbVars, localVars,
                   histVars, changes>>

----------------------------------------------------------------------------
(* Initial states *)

ContentTypeRow(pk, app_label, model) ==
    [pk |-> pk, app_label |-> app_label, model |-> model]

PermissionRow(pk, content_type, codename, name) ==
    [pk |-> pk, content_type |-> content_type, codename |-> codename, name |-> name]

\* databases a deployment can hold before a migration run
InitialDatabases ==
    { [ct |-> {}, perm |-> {}],
      [ct |-> {ContentTypeRow(1, "billing", "invoice")},
       perm |-> {PermissionRow(1, 1, "add_invoice", "Can add bill")}],
      [ct |-> {ContentTypeRow(1, "billing", "invoice")},
       perm |-> {PermissionRow(1, 1, "add_invoice", "Can add invoice"),
                 PermissionRow(2, 1, "change_invoice", "Can change invoice"),
                 PermissionRow(3, 1, "delete_invoice", "Can delete invoice")}],
      [ct |-> {ContentTypeRow(1, "auth", "user"),
               ContentTypeRow(2, "billing", "legacy"),
               ContentTypeRow(3, "billing", "report")},
       perm |-> {PermissionRow(1, 1, "add_user", "Can add user"),
                 PermissionRow(2, 2, "add_legacy", "Can add legacy"),
                 PermissionRow(3, 3, "add_report", "Can add report"),
                 PermissionRow(4, 3, "change_report", "Can change report"),
                 PermissionRow(5, 3, "delete_report", "Can delete report")}] }

\* INSTALLED_APPS with or without django.contrib.auth, DATABASE_ROUTERS that
\* let Permission migrate everywhere or on the default alias alone
Deployments ==
    { [installed_auth |-> TRUE, router_allowed |-> Aliases],
      [installed_auth |-> TRUE, router_allowed |-> {"default"}],
      [installed_auth |-> FALSE, router_allowed |-> Aliases] }

InitLocals ==
    /\ pc = [p \in ProcIds |-> "idle"]
    /\ args = [p \in ProcIds |-> [models_module |-> FALSE, verbosity |-> 1,
                                  using |-> "default"]]
    /\ models = [p \in ProcIds |-> <<>>]
    /\ idx = [p \in ProcIds |-> 1]
    /\ ctype = [p \in ProcIds |-> NoContentType]
    /\ searched_perms = [p \in ProcIds |-> <<>>]
    /\ ctypes = [p \in ProcIds |-> {}]
    /\ all_perms = [p \in ProcIds |-> {}]
    /\ perms = [p \in ProcIds |-> <<>>]
    /\ outcome = [p \in ProcIds |-> "none"]
    /\ stdout = [p \in ProcIds |-> <<>>]
    /\ entry = [p \in ProcIds |-> [ct |-> ctTable, perm |-> permTable,
                                   registry |-> <<>>]]
    /\ resolved = [p \in ProcIds |-> <<>>]
    /\ queries = [p \in ProcIds |-> 0]
    /\ prev = NoInvocation
    /\ runs = 0
    /\ changes = 0

\* the process after mongoadmin was imported with the override switched on
InitSubstituted ==
    /\ settings = "True"
    /\ django_version = <<1, 9, 0>>
    /\ imported = TRUE
    /\ admin_site = "django_site"
    /\ admin_sites_site = "mongoadmin_site"
    /\ site_registry = [s \in Sites |-> "django_registry"]
    /\ at_import = [admin_site |-> "django_site",
                    admin_sites_site |-> "django_site",
                    site_registry |-> [s \in Sites |->
                        IF s = "django_site" THEN "django_registry"
                        ELSE "mongoadmin_registry"],
                    dicts |-> [d \in DictIds |-> <<>>]]

Init ==
    /\ InitSubstituted
    /\ \E keys \in DistinctSeqs(Classes, MaxInitial) :
          dicts = [d \in DictIds |->
                      IF d = "django_registry" THEN EntriesOf(keys) ELSE <<>>]
    /\ \E env \in Deployments :
          /\ installed_auth = env.installed_auth
          /\ router_allowed = env.router_allowed
    /\ \E db \in InitialDatabases :
          /\ ctTable = [a \in Aliases |-> IF a = "default" THEN db.ct ELSE {}]
          /\ permTable = [a \in Aliases |-> IF a = "default" THEN db.perm ELSE {}]
    /\ InitLocals

\* one migration run at a time, registry changes between two runs
Next ==
    \/ create_permissions(1)
    \/ \E k \in Classes :
          pc[1] = "done" /\ runs < MaxRuns /\ Register("mongoadmin_site", k, AdminOf(k))
    \/ \E k \in Classes :
          pc[1] = "done" /\ runs < MaxRuns /\ Unregister("mongoadmin_site", k)

Spec == Init /\ [][Next]_vars

----------------------------------------------------------------------------
(* The process before mongoadmin is imported *)

Versions == {<<1, 8, 19>>, <<1, 9, 0>>, <<1, 10, 0>>}

Documents == {k \in Classes : Meta(k).document}

InitSite ==
    /\ settings \in {"absent", "False", "True"}
    /\ django_version \in Versions
    /\ imported = FALSE
    /\ admin_site = "django_site"
    /\ admin_sites_site = "django_site"
    /\ site_registry = [s \in Sites |-> IF s = "django_site"
                                        THEN "django_registry"
                                        ELSE "mongoadmin_registry"]
    /\ \E dj \in DistinctSeqs(Classes, MaxInitial),
          mo \in {<<>>} \cup {<<k>> : k \in Documents} :
          dicts = [d \in DictIds |-> IF d = "django_registry"
                                     THEN EntriesOf(dj) ELSE EntriesOf(mo)]
    /\ at_import = Snapshot
    /\ installed_auth = TRUE
    /\ router_allowed = Aliases
    /\ ctTable = [a \in Aliases |-> {}]
    /\ permTable = [a \in Aliases |-> {}]
    /\ InitLocals

NextSite ==
    \/ ImportMongoadmin
    \/ \E s \in Sites, k \in Classes, a \in Admins : Register(s, k, a)
    \/ \E s \in Sites, k \in Classes : Unregister(s, k)

SpecSite == InitSite /\ [][NextSite]_vars

----------------------------------------------------------------------------
(* Two migration runs at once against the same databases *)

InitRace ==
    /\ InitSubstituted
    /\ \E keys \in DistinctSeqs(Classes, MaxInitial) :
          dicts = [d \in DictIds |->
                      IF d = "django_registry" THEN EntriesOf(keys) ELSE <<>>]
    /\ \E env \in Deployments :
          /\ installed_auth = env.installed_auth
          /\ router_allowed = env.router_allowed
    /\ \E db \in InitialDatabases :
          /\ ctTable = [a \in Aliases |-> IF a = "default" THEN db.ct ELSE {}]
          /\ permTable = [a \in Aliases |-> IF a = "default" THEN db.perm ELSE {}]
    /\ InitLocals

NextRace == \E p \in ProcIds : create_permissions(p)

SpecRace == InitRace /\ [][NextRace]_vars

----------------------------------------------------------------------------
(* Vocabulary of the properties *)

Using(p) == args[p].using

Pair(r) == <<r.content_type, r.codename>>

Pairs(table) == {Pair(r) : r \in table}

Count(table, pair) == Cardinality({r \in table : Pair(r) = pair})

NoDuplicates(table) == \A r1, r2 \in table : Pair(r1) = Pair(r2) => r1 = r2

\* the rows the current invocation of slot p added to the table of its alias
Inserted(p) == permTable[Using(p)] \ entry[p].perm[Using(p)]

\* the document models among the keys of a registry dict
DocumentKeys(reg) == {k \in Range(RegistryKeys(reg)) : Meta(k).document}

DocumentSeq(reg) == SelectSeq(RegistryKeys(reg), LAMBDA k : Meta(k).document)

Codename(action, k) == action \o "_" \o Meta(k).model_name

ActionSet == {"add", "change", "delete"}

\* the (content type, codename) pairs the registry at the call asks for
Desired(p) ==
    UNION {{<<ct.pk, Codename(a, k)>> :
               ct \in ContentTypeRows(ctTable[Using(p)], Meta(k)), a \in ActionSet} :
           k \in DocumentKeys(entry[p].registry)}

\* the invocation of slot p ended at the raise of line 69, on klass(p)
AbortedInLoop(p) ==
    /\ pc[p] = "done"
    /\ outcome[p] = "ValidationError"
    /\ idx[p] <= Len(models[p])

\* some registered document has "Can delete " + verbose name over the limit
HasOverlongVerboseName(reg) ==
    \E k \in DocumentKeys(reg) :
        Len("Can delete " \o Meta(k).verbose_name) > permission_name_max_length

----------------------------------------------------------------------------
(* Properties of create_permissions, one migration run at a time *)

\* C1 (as claimed): after an eligible invocation that raised no validation
\* error, started from a table without duplicate pairs, every registered
\* document and every default action has exactly one Permission row with
\* codename <action>_<model name> and the document's content type.
C1_Completeness ==
    (pc[1] = "done" /\ outcome[1] = "ok"
        /\ NoDuplicates(entry[1].perm[Using(1)]))
    => \A k \in DocumentKeys(entry[1].registry), a \in ActionSet :
          \E ct \in ContentTypeRows(ctTable[Using(1)], Meta(k)) :
              Count(permTable[Using(1)], <<ct.pk, Codename(a, k)>>) = 1

\* C2: an invocation that repeats the one before it (same alias, same
\* app_config, same registry) inserts no row: the permission tables are what
\* the first invocation left.
C2_Idempotence ==
    (pc[1] = "done" /\ prev.valid
        /\ prev.using = Using(1)
        /\ prev.models_module = args[1].models_module
        /\ prev.registry = entry[1].registry)
    => permTable = entry[1].perm

\* C2 witness: the first of the two invocations inserted rows, the second
\* ran to the end and found nothing to insert.
C2_Witness ==
    /\ pc[1] = "done" /\ outcome[1] = "ok" /\ prev.valid
    /\ prev.using = Using(1)
    /\ prev.models_module = args[1].models_module
    /\ prev.registry = entry[1].registry
    /\ prev.inserted > 0
    /\ all_perms[1] # {}
    /\ perms[1] = <<>>

\* C3 (as claimed): no object handed to bulk_create has a pair the table
\* already holds, and no two objects of the batch have the same pair.
C3_NoDuplication ==
    pc[1] = "bulk_create"
    => /\ \A i \in DOMAIN perms[1] :
             <<perms[1][i].content_type.pk, perms[1][i].codename>>
                 \notin Pairs(permTable[Using(1)])
       /\ \A i, j \in DOMAIN perms[1] :
             (perms[1][i].content_type.pk = perms[1][j].content_type.pk
                 /\ perms[1][i].codename = perms[1][j].codename) => i = j

\* C4 (as claimed): when a registered document has "Can delete " + verbose
\* name longer than the name field, the invocation raises a validation error
\* and inserts nothing.
C4_LengthGuardAnyInvocation ==
    (pc[1] = "done" /\ HasOverlongVerboseName(entry[1].registry))
    => /\ outcome[1] = "ValidationError"
       /\ permTable = entry[1].perm

\* C4 (amended): the same, for an invocation that passes the eligibility
\* checks of lines 42-51.
C4_LengthGuard ==
    (pc[1] = "done" /\ HasOverlongVerboseName(entry[1].registry)
        /\ args[1].models_module /\ installed_auth
        /\ Using(1) \in router_allowed)
    => /\ outcome[1] = "ValidationError"
       /\ permTable = entry[1].perm

\* C4 witness: the offending document is enumerated last, after a document
\* whose permissions are all missing, and nothing was inserted.
C4_Witness ==
    /\ pc[1] = "done" /\ outcome[1] = "ValidationError"
    /\ Len(models[1]) >= 2
    /\ idx[1] = Len(models[1])
    /\ Len("Can delete " \o Meta(klass(1)).verbose_name) > permission_name_max_length
    /\ searched_perms[1] # <<>>
    /\ \A i \in DOMAIN searched_perms[1] :
          <<searched_perms[1][i].ct.pk, searched_perms[1][i].codename>>
              \notin Pairs(permTable[Using(1)])

\* C5: an invocation that fails one of the three eligibility checks returns
\* without an error, having made no database operation, changed no table and
\* printed nothing.
C5_EligibilitySkip ==
    (pc[1] = "done"
        /\ (~args[1].models_module \/ ~installed_auth
               \/ Using(1) \notin router_allowed))
    => /\ outcome[1] = "returned"
       /\ queries[1] = 0
       /\ ctTable = entry[1].ct
       /\ permTable = entry[1].perm
       /\ stdout[1] = <<>>

\* C5 witness: the router refuses the alias while a registered document has
\* neither content type nor permissions there.
C5_Witness ==
    /\ pc[1] = "done" /\ outcome[1] = "returned"
    /\ args[1].models_module /\ installed_auth
    /\ Using(1) \notin router_allowed
    /\ \E k \in DocumentKeys(entry[1].registry) :
          ContentTypeRows(ctTable[Using(1)], Meta(k)) = {}

C6_ScenarioReached ==
    /\ pc[1] = "done" /\ outcome[1] = "ok"
    /\ DocumentKeys(entry[1].registry) = {"billing.models.Invoice"}
    /\ entry[1].perm[Using(1)] = {}
    /\ Cardinality(Inserted(1)) = 3

\* C7: no step removes or alters a Permission row: every row of every alias
\* is still there, with the same pk, content type, codename and name.
C7_Frame ==
    [][\A a \in Aliases : permTable[a] \subseteq permTable'[a]]_vars

\* C7 witness: a document that the previous invocation served was
\* unregistered, the next invocation inserted rows for another document, and
\* the rows of the unregistered one are still in the table.
C7_Witness ==
    /\ pc[1] = "done" /\ outcome[1] = "ok" /\ prev.valid
    /\ prev.using = Using(1)
    /\ Inserted(1) # {}
    /\ \E k \in DocumentKeys(prev.registry) :
          /\ \A k2 \in Range(RegistryKeys(entry[1].registry)) :
                Meta(k2).model_name # Meta(k).model_name
          /\ \E ct \in ContentTypeRows(ctTable[Using(1)], Meta(k)) :
                Cardinality({r \in permTable[Using(1)] : r.content_type = ct.pk}) >= 3

\* C10: the content type of a document is obtained before its verbose name
\* is checked and before any Permission object exists; after the raise of
\* line 69 on model M, get_for_model was called for exactly the documents up
\* to M, in enumeration order, their rows exist, and every row this
\* invocation created belongs to one of them.
C10_ContentTypesFirst ==
    /\ pc[1] = "check"
       => /\ ctype[1] \in ContentTypeRows(ctTable[Using(1)], Meta(klass(1)))
          /\ resolved[1][Len(resolved[1])] = klass(1)
    /\ pc[1] \in {"loop", "check"}
       => /\ perms[1] = <<>>
          /\ \A i \in DOMAIN searched_perms[1] :
                searched_perms[1][i].ct \in ctTable[Using(1)]
    /\ AbortedInLoop(1)
       => /\ resolved[1] = SubSeq(DocumentSeq(entry[1].registry), 1, idx[1])
          /\ \A j \in 1..idx[1] :
                ContentTypeRows(ctTable[Using(1)], Meta(resolved[1][j])) # {}
          /\ \A ct \in ctTable[Using(1)] \ entry[1].ct[Using(1)] :
                \E j \in 1..idx[1] :
                    ct \in ContentTypeRows(ctTable[Using(1)], Meta(resolved[1][j]))
          /\ permTable = entry[1].perm

\* C10 witness: the raise happened on the second of three documents; the
\* first two got their content types from this invocation, the third has none.
C10_Witness ==
    /\ AbortedInLoop(1)
    /\ idx[1] = 2
    /\ Len(DocumentSeq(entry[1].registry)) = 3
    /\ entry[1].ct[Using(1)] = {}
    /\ Cardinality(ctTable[Using(1)]) = 2
    /\ ContentTypeRows(ctTable[Using(1)],
                       Meta(DocumentSeq(entry[1].registry)[3])) = {}

----------------------------------------------------------------------------
(* Properties of the import-time substitution *)

\* C8: the import with the flag true leaves the default-site name of the
\* installed Django version bound to the mongoadmin site, whose registry then
\* holds every entry the django site's registry held, with the same admin;
\* the import with the flag absent or false changes no binding and no
\* registry.
C8_Substitution ==
    [][(~imported /\ imported')
       => IF settings = "True"
          THEN /\ (IF VersionLess(django_version, <<1, 9, 0>>)
                   THEN admin_site' ELSE admin_sites_site') = "mongoadmin_site"
               /\ \A e \in Range(dicts[site_registry["django_site"]]) :
                     e \in Range(dicts'[site_registry'["mongoadmin_site"]])
          ELSE /\ admin_site' = admin_site
               /\ admin_sites_site' = admin_sites_site
               /\ \A s \in Sites :
                     dicts'[site_registry'[s]] = dicts[site_registry[s]]
      ]_vars

\* C8 witness: on Django 1.10 with the flag true, both sites had entries
\* before the import, and the mongoadmin site now answers with the entries
\* of the django site.
C8_Witness ==
    /\ imported /\ settings = "True" /\ django_version = <<1, 10, 0>>
    /\ at_import.dicts["django_registry"] # <<>>
    /\ at_import.dicts["mongoadmin_registry"] # <<>>
    /\ at_import.admin_sites_site = "django_site"
    /\ admin_sites_site = "mongoadmin_site"
    /\ Range(at_import.dicts["django_registry"])
          \subseteq Range(dicts[site_registry["mongoadmin_site"]])

----------------------------------------------------------------------------
(* Properties of two concurrent migration runs *)

\* C9: bulk_create of an invocation writes the pairs that were missing when
\* that invocation queried the table, whatever the table holds by then: no
\* lock is taken and nothing is read again between the query and the insert.
C9_NoRecheck ==
    [][\A p \in ProcIds :
          (pc[p] = "bulk_create" /\ pc'[p] = "report")
          => Pairs(permTable'[Using(p)] \ permTable[Using(p)])
               = {<<sp.ct.pk, sp.codename>> : sp \in Range(searched_perms[p])}
                     \ all_perms[p]
      ]_vars

\* C9 witness: two invocations on the same alias and registry, whose
\* documents have distinct content types, both read the table before either
\* inserted; the table had no duplicate and now holds a pair twice.
C9_Witness ==
    /\ pc[1] = "done" /\ outcome[1] = "ok"
    /\ pc[2] = "done" /\ outcome[2] = "ok"
    /\ Using(1) = Using(2)
    /\ entry[1].registry = entry[2].registry
    /\ \A k1, k2 \in DocumentKeys(entry[1].registry) :
          Meta(k1).model_name = Meta(k2).model_name => k1 = k2
    /\ NoDuplicates(entry[1].perm[Using(1)])
    /\ NoDuplicates(entry[2].perm[Using(2)])
    /\ all_perms[1] = all_perms[2]
    /\ \E r \in permTable[Using(1)] : Count(permTable[Using(1)], Pair(r)) = 2

====
